---- MODULE Spec2Model ----
(***************************************************************************)
(* Model of voxel_verification_sample.py: run_verification and the         *)
(* functions it calls.  Text is a sequence of byte codes (ASCII), the      *)
(* `content` field of a GitHub contents response is a sequence of base64   *)
(* symbols, a diagnostic line is a record [msg, stream, a, b].             *)
(***************************************************************************)
EXTENDS Integers, Sequences, FiniteSets, TLC

VARIABLES
    flags,              \* CONFIG["VERIFICATION_FLOW"] and content_checks.check_entries
    environ,            \* os.environ restricted to the two configured variables
    env_file,           \* the key=value pairs of .mcp_env
    mock,               \* the remote side: the response to each file's GET, once given
    pc,                 \* position of run_verification
    run,                \* number of the current call of run_verification
    github_token,       \* local of run_verification
    github_org,         \* local of run_verification
    answer_content,     \* local of run_verification
    reference_content,  \* local of run_verification
    checks,             \* the lists handed to all(), per file step
    calls,              \* the check functions called so far in this run, in order
    gets,               \* the HTTP GETs issued so far in this run, in order
    log,                \* the lines printed so far in this run, in order
    result,             \* return value of run_verification
    prev                \* result, log and gets of the previous run

vars == <<flags, environ, env_file, mock, pc, run, github_token, github_org,
          answer_content, reference_content, checks, calls, gets, log, result, prev>>

\* ------------------------------------------------------------------ bounds
MaxRuns == 2
MaxRefBlocks == 3

\* ----------------------------------------------------------- CONFIG values
\* Optional[str]: None, or a text
None == [some |-> FALSE, text |-> <<>>]
Some(t) == [some |-> TRUE, text |-> t]

github_token_var == "MCP_GITHUB_TOKEN"
github_org_var == "GITHUB_EVAL_ORG"
EnvVars == {github_token_var, github_org_var}

target_branch == "main"
answer_path == "ANSWER.md"
reference_path == "README.md"

\* "2023-11-15"
expected_value == <<50, 48, 50, 51, 45, 49, 49, 45, 49, 53>>
\* "## Voxel Engine Implementation"
required_section == <<35, 35, 32, 86, 111, 120, 101, 108, 32, 69, 110, 103, 105, 110,
                      101, 32, 73, 109, 112, 108, 101, 109, 101, 110, 116, 97, 116, 105,
                      111, 110>>
\* "C++ Voxel Engine Fundamentals"
entry_1 == <<67, 43, 43, 32, 86, 111, 120, 101, 108, 32, 69, 110, 103, 105, 110, 101,
             32, 70, 117, 110, 100, 97, 109, 101, 110, 116, 97, 108, 115>>
\* "Vulkan-based Voxel Rendering"
entry_2 == <<86, 117, 108, 107, 97, 110, 45, 98, 97, 115, 101, 100, 32, 86, 111, 120,
             101, 108, 32, 82, 101, 110, 100, 101, 114, 105, 110, 103>>
required_entries == <<entry_1, entry_2>>

\* r'^\d{4}-\d{2}-\d{2}$' as the list of atoms between '^' and '$': \d or a literal
Digit == [cls |-> "digit", c |-> 0]
Hyphen == [cls |-> "literal", c |-> 45]
pattern == <<Digit, Digit, Digit, Digit, Hyphen, Digit, Digit, Hyphen, Digit, Digit>>

FlagNames == {"check_answer_file_existence", "check_answer_format", "verify_answer_value",
              "check_reference_file", "check_section_existence", "check_required_entries",
              "check_entries"}
DefaultFlags == [f \in FlagNames |-> TRUE]

\* ------------------------------------------------------ Python primitives
\* truth value of an Optional[str]: None and "" are false
Truthy(v) == v.some /\ v.text # <<>>

Digits == 48..57
\* the ASCII whitespace str.strip() removes
Whitespace == {9, 10, 11, 12, 13, 28, 29, 30, 31, 32}

RECURSIVE lstrip(_)
lstrip(s) == IF s # <<>> /\ Head(s) \in Whitespace THEN lstrip(Tail(s)) ELSE s

RECURSIVE rstrip(_)
rstrip(s) == IF s # <<>> /\ s[Len(s)] \in Whitespace
             THEN rstrip(SubSeq(s, 1, Len(s) - 1)) ELSE s

\* str.strip()
strip(s) == rstrip(lstrip(s))

AtomMatches(atom, c) == IF atom.cls = "digit" THEN c \in Digits ELSE atom.c = c

\* re.match(pattern, s) for a pattern '^atoms$': the atoms match a prefix of s and
\* '$' matches at the end of s or just before a final newline
re_match(atoms, s) ==
    /\ Len(s) >= Len(atoms)
    /\ \A i \in 1..Len(atoms) : AtomMatches(atoms[i], s[i])
    /\ \/ Len(s) = Len(atoms)
       \/ Len(s) = Len(atoms) + 1 /\ s[Len(s)] = 10

\* needle in hay
Contains(needle, hay) ==
    \E i \in 0..(Len(hay) - Len(needle)) : SubSeq(hay, i + 1, i + Len(needle)) = needle

\* ------------------------------------------------------------ base64, UTF-8
\* base64 symbols: 0..63 are the alphabet, Pad is '=', NL is the newline GitHub
\* puts between the chunks of `content`
Pad == 64
NL == 65

\* what the remote side does to a file's bytes: RFC 4648 encoding, three bytes to
\* four symbols, the last group padded
b64encode(b) ==
    LET n == Len(b)
        byte(k) == IF k <= n THEN b[k] ELSE 0
    IN  [i \in 1..(4 * ((n + 2) \div 3)) |->
            LET j == (i - 1) \div 4
                pos == (i - 1) % 4
            IN  IF pos = 0 THEN byte(3 * j + 1) \div 4
                ELSE IF pos = 1
                     THEN (byte(3 * j + 1) % 4) * 16 + byte(3 * j + 2) \div 16
                ELSE IF pos = 2
                     THEN IF 3 * j + 2 > n THEN Pad
                          ELSE (byte(3 * j + 2) % 16) * 4 + byte(3 * j + 3) \div 64
                ELSE IF 3 * j + 3 > n THEN Pad ELSE byte(3 * j + 3) % 64]

\* str.replace("\n", "")
RemoveNewlines(s) == SelectSeq(s, LAMBDA x : x # NL)

Failure == [ok |-> FALSE, bytes |-> <<>>]

\* the quads of a base64 string, four symbols to three bytes; symbols left over
\* from the last quad are binascii.Error (Incorrect padding).  Padding before the
\* end of the last quad is given the same outcome; no modelled response holds it.
DecodeQuads(s) ==
    LET n == Len(s)
        pads == Cardinality({i \in 1..n : s[i] = Pad})
    IN  IF \/ n % 4 # 0
           \/ \E i \in 1..n : /\ s[i] = Pad
                              /\ i # n
                              /\ ~(i = n - 1 /\ s[n] = Pad)
        THEN Failure
        ELSE [ok |-> TRUE,
              bytes |-> [k \in 1..((n \div 4) * 3 - pads) |->
                            LET j == (k - 1) \div 3
                                r == (k - 1) % 3
                            IN  IF r = 0 THEN s[4 * j + 1] * 4 + s[4 * j + 2] \div 16
                                ELSE IF r = 1
                                     THEN (s[4 * j + 2] % 16) * 16 + s[4 * j + 3] \div 4
                                ELSE (s[4 * j + 3] % 4) * 64 + s[4 * j + 4]]]

\* base64.b64decode(s): characters outside the alphabet are discarded first
b64decode(s) == DecodeQuads(SelectSeq(s, LAMBDA x : x <= Pad))

\* bytes.decode("utf-8") on the bytes the model produces: ASCII, or the byte 0xFF,
\* which no UTF-8 sequence contains
utf8_decode(b) == IF \A i \in 1..Len(b) : b[i] < 128
                  THEN [ok |-> TRUE, text |-> b]
                  ELSE [ok |-> FALSE, text |-> <<>>]

\* ------------------------------------------------------------- diagnostics
\* one printed line: msg names the print statement, stream is stdout or stderr,
\* path, ref, n, a and b are the values interpolated into it
Line(msg, stream, path, n, a, b) ==
    [msg |-> msg, stream |-> stream, path |-> path, ref |-> "", n |-> n, a |-> a, b |-> b]
Out(msg) == Line(msg, "stdout", "", 0, <<>>, <<>>)
Err(msg) == Line(msg, "stderr", "", 0, <<>>, <<>>)
OutFile(msg, path) == Line(msg, "stdout", path, 0, <<>>, <<>>)
ErrFile(msg, path) == Line(msg, "stderr", path, 0, <<>>, <<>>)

\* ------------------------------------------------------------- HTTP, JSON
\* the parsed JSON body of a response: null, an object (with or without a
\* `content` member, which is a string or not), or a non-empty array
JsonNull == [kind |-> "null", has_content |-> FALSE, is_str |-> FALSE, content |-> <<>>]
JsonEmptyObject ==
    [kind |-> "empty_object", has_content |-> FALSE, is_str |-> FALSE, content |-> <<>>]
JsonArray == [kind |-> "array", has_content |-> FALSE, is_str |-> FALSE, content |-> <<>>]
JsonObjectNoContent ==
    [kind |-> "object", has_content |-> FALSE, is_str |-> FALSE, content |-> <<>>]
JsonObjectNullContent ==
    [kind |-> "object", has_content |-> TRUE, is_str |-> FALSE, content |-> <<>>]
JsonFile(symbols) ==
    [kind |-> "object", has_content |-> TRUE, is_str |-> TRUE, content |-> symbols]

\* what requests.get does: raises, or returns a response with a status code whose
\* .json() raises or returns a body
Raised == [raises |-> TRUE, status_code |-> 0, json_raises |-> FALSE, body |-> JsonNull]
Response(status, body) ==
    [raises |-> FALSE, status_code |-> status, json_raises |-> FALSE, body |-> body]
BadJson == [raises |-> FALSE, status_code |-> 200, json_raises |-> TRUE, body |-> JsonNull]

\* _build_headers and the URL of _call_github_api: what one GET carries
Request(path, branch, token, org) ==
    [path |-> path, ref |-> branch, authorization |-> token, org |-> org]

\* _call_github_api repeating its GET once when the first attempt fails
RetryOnFailure(endpoint, headers, org, resp) ==
    LET req == Request(endpoint.path, endpoint.ref, headers, org)
        failed == resp.raises \/ resp.status_code # 200
    IN  [success |-> ~failed /\ ~resp.json_raises,
         body |-> IF failed \/ resp.json_raises THEN JsonNull ELSE resp.body,
         sent |-> IF failed THEN <<req, req>> ELSE <<req>>,
         out |-> IF resp.raises \/ (~failed /\ resp.json_raises)
                 THEN <<ErrFile("api_exception", endpoint.path)>>
                 ELSE IF resp.status_code = 200 THEN <<>>
                 ELSE IF resp.status_code = 404
                      THEN <<ErrFile("api_not_found", endpoint.path)>>
                 ELSE <<Line("api_failed", "stderr", endpoint.path, resp.status_code,
                             <<>>, <<>>)>>]

\* _call_github_api, given what the remote does with its one GET: (success, body),
\* the request sent and the lines printed
call_github_api(endpoint, headers, org, resp) ==
    LET req == Request(endpoint.path, endpoint.ref, headers, org)
    IN  IF resp.raises \/ (resp.status_code = 200 /\ resp.json_raises)
        THEN [success |-> FALSE, body |-> JsonNull, sent |-> <<req>>,
              out |-> <<ErrFile("api_exception", endpoint.path)>>]
        ELSE IF resp.status_code = 200
        THEN [success |-> TRUE, body |-> resp.body, sent |-> <<req>>, out |-> <<>>]
        ELSE IF resp.status_code = 404
        THEN [success |-> FALSE, body |-> JsonNull, sent |-> <<req>>,
              out |-> <<ErrFile("api_not_found", endpoint.path)>>]
        ELSE [success |-> FALSE, body |-> JsonNull, sent |-> <<req>>,
              out |-> <<Line("api_failed", "stderr", endpoint.path, resp.status_code,
                             <<>>, <<>>)>>]

\* `not file_data`
Falsy(body) == body.kind \in {"null", "empty_object"}

\* lines 157-162 with the except clause removed: the exception leaves the function
DecodeUnguarded(file_path, body) ==
    IF body.kind # "object" \/ (body.has_content /\ ~body.is_str)
    THEN [ret |-> None, raised |-> TRUE, out |-> <<>>]
    ELSE LET raw == b64decode(RemoveNewlines(body.content))
             txt == utf8_decode(raw.bytes)
         IN  IF raw.ok /\ txt.ok
             THEN [ret |-> Some(txt.text), raised |-> FALSE, out |-> <<>>]
             ELSE [ret |-> None, raised |-> TRUE, out |-> <<>>]

\* the try block of _get_file_content: file_data.get("content", "") without its
\* newlines, base64-decoded, UTF-8-decoded; any exception becomes None
Decode(file_path, body) ==
    IF body.kind # "object" \/ (body.has_content /\ ~body.is_str)
    THEN [ret |-> None, raised |-> FALSE, out |-> <<ErrFile("decode_failed", file_path)>>]
    ELSE LET raw == b64decode(RemoveNewlines(body.content))
             txt == utf8_decode(raw.bytes)
         IN  IF raw.ok /\ txt.ok
             THEN [ret |-> Some(txt.text), raised |-> FALSE, out |-> <<>>]
             ELSE [ret |-> None, raised |-> FALSE,
                   out |-> <<ErrFile("decode_failed", file_path)>>]

\* branch = ref or CONFIG["REPO_CONFIG"]["target_branch"]
Branch(ref) == IF ref # "" THEN ref ELSE target_branch

\* _get_file_content: the text or None, whether an exception left the function,
\* the requests sent and the lines printed
get_file_content(file_path, headers, org, ref, resp) ==
    LET branch == Branch(ref)
        api == call_github_api([path |-> file_path, ref |-> branch], headers, org, resp)
    IN  IF ~api.success \/ Falsy(api.body)
        THEN [ret |-> None, raised |-> FALSE, sent |-> api.sent,
              out |-> api.out \o <<[ErrFile("file_not_found", file_path) EXCEPT !.ref = branch]>>]
        ELSE LET d == Decode(file_path, api.body)
             IN  [ret |-> d.ret, raised |-> d.raised, sent |-> api.sent,
                  out |-> api.out \o d.out]

\* ------------------------------------------------------------- validators
\* each returns the boolean and the lines it prints
Verdict(ok, out) == [ok |-> ok, out |-> out]

verify_answer_file_existence(fl, content) ==
    IF fl["check_answer_file_existence"]
    THEN IF ~Truthy(content)
         THEN Verdict(FALSE, <<ErrFile("answer_missing", answer_path)>>)
         ELSE Verdict(TRUE, <<OutFile("answer_exists", answer_path)>>)
    ELSE Verdict(TRUE, <<>>)

verify_answer_format(fl, content) ==
    IF fl["check_answer_format"]
    THEN IF ~re_match(pattern, strip(content))
         THEN Verdict(FALSE, <<Err("format_mismatch")>>)
         ELSE Verdict(TRUE, <<Out("format_ok")>>)
    ELSE Verdict(TRUE, <<>>)

\* the value check comparing the raw content, without content.strip()
ValueUnstripped(fl, content) ==
    IF fl["verify_answer_value"]
    THEN IF content # expected_value
         THEN Verdict(FALSE, <<Line("value_mismatch", "stderr", "", 0,
                                    expected_value, content)>>)
         ELSE Verdict(TRUE, <<Line("value_ok", "stdout", "", 0, expected_value, <<>>)>>)
    ELSE Verdict(TRUE, <<>>)

verify_answer_value(fl, content) ==
    IF fl["verify_answer_value"]
    THEN IF strip(content) # expected_value
         THEN Verdict(FALSE, <<Line("value_mismatch", "stderr", "", 0,
                                    expected_value, strip(content))>>)
         ELSE Verdict(TRUE, <<Line("value_ok", "stdout", "", 0, expected_value, <<>>)>>)
    ELSE Verdict(TRUE, <<>>)

verify_reference_file(fl, content) ==
    IF fl["check_reference_file"] /\ ~Truthy(content)
    THEN Verdict(FALSE, <<ErrFile("reference_missing", reference_path)>>)
    ELSE IF fl["check_reference_file"]
         THEN Verdict(TRUE, <<OutFile("reference_exists", reference_path)>>)
         ELSE Verdict(TRUE, <<>>)

verify_required_section(fl, content) ==
    IF fl["check_section_existence"]
    THEN IF ~Contains(required_section, content)
         THEN Verdict(FALSE, <<Line("section_missing", "stderr", reference_path, 0,
                                    required_section, <<>>)>>)
         ELSE Verdict(TRUE, <<Line("section_found", "stdout", "", 0,
                                   required_section, <<>>)>>)
    ELSE Verdict(TRUE, <<>>)

EntryWarning(entry) == Line("entry_missing", "stderr", reference_path, 0, entry, <<>>)

\* the entries loop leaving at the first missing entry
EntriesStopAtFirst(fl, content) ==
    IF fl["check_required_entries"] /\ fl["check_entries"]
    THEN LET missing == SelectSeq(required_entries, LAMBDA e : ~Contains(e, content))
         IN  IF missing = <<>>
             THEN Verdict(TRUE, <<Line("entries_ok", "stdout", "", Len(required_entries),
                                       <<>>, <<>>)>>)
             ELSE Verdict(FALSE, <<EntryWarning(missing[1]), Err("entries_missing")>>)
    ELSE Verdict(TRUE, <<>>)

verify_required_entries(fl, content) ==
    IF fl["check_required_entries"] /\ fl["check_entries"]
    THEN LET missing == SelectSeq(required_entries, LAMBDA e : ~Contains(e, content))
         IN  IF missing = <<>>
             THEN Verdict(TRUE, <<Line("entries_ok", "stdout", "", Len(required_entries),
                                       <<>>, <<>>)>>)
             ELSE Verdict(FALSE, [i \in 1..Len(missing) |-> EntryWarning(missing[i])]
                                 \o <<Err("entries_missing")>>)
    ELSE Verdict(TRUE, <<>>)

\* any(list) in the place of all(list)
AnyOf(list) == \E i \in 1..Len(list) : list[i]

\* all(list)
all(list) == \A i \in 1..Len(list) : list[i]

\* ------------------------------------------------------------ environment
\* load_dotenv(env_file): a variable the file defines is set unless os.environ
\* already holds it
load_dotenv(env, file) ==
    [v \in EnvVars |-> IF ~env[v].some /\ file[v].some THEN file[v] ELSE env[v]]

\* os.environ.pop in the place of os.environ.get: reading a variable removes it
EnvironPopped(env, file) == [v \in EnvVars |-> None]

\* os.environ once _load_environment has returned: os.environ.get changes nothing
\* of what load_dotenv left
environ_after_load(env, file) == load_dotenv(env, file)

\* _load_environment: (token, org) and one line per missing variable
load_environment(env) ==
    [github_token |-> env[github_token_var],
     github_org |-> env[github_org_var],
     out |-> (IF ~Truthy(env[github_token_var])
              THEN <<ErrFile("env_var_missing", github_token_var)>> ELSE <<>>)
             \o (IF ~Truthy(env[github_org_var])
                 THEN <<ErrFile("env_var_missing", github_org_var)>> ELSE <<>>)]

\* the test requiring both credentials to be missing
BothMissing(token, org) == ~Truthy(token) /\ ~Truthy(org)

\* `not github_token or not github_org`
Incomplete(token, org) == ~Truthy(token) \/ ~Truthy(org)

\* ------------------------------------------------------- run_verification
\* step 2 written as a chain of `and`: a check runs only if those before it passed
AnswerChecksLazy(fl, content) ==
    LET e == verify_answer_file_existence(fl, content)
        f == IF Truthy(content) THEN verify_answer_format(fl, content.text)
             ELSE Verdict(FALSE, <<>>)
        v == IF Truthy(content) THEN verify_answer_value(fl, content.text)
             ELSE Verdict(FALSE, <<>>)
    IN  IF ~e.ok \/ ~Truthy(content)
        THEN [list |-> <<e.ok, FALSE, FALSE>>, out |-> e.out,
              calls |-> <<"_verify_answer_file_existence">>]
        ELSE IF ~f.ok
        THEN [list |-> <<e.ok, f.ok, FALSE>>, out |-> e.out \o f.out,
              calls |-> <<"_verify_answer_file_existence", "_verify_answer_format">>]
        ELSE [list |-> <<e.ok, f.ok, v.ok>>, out |-> e.out \o f.out \o v.out,
              calls |-> <<"_verify_answer_file_existence", "_verify_answer_format",
                          "_verify_answer_value">>]

\* the list handed to all() in step 2, the lines its elements print while it is
\* built, and the check functions called
answer_checks(fl, content) ==
    LET e == verify_answer_file_existence(fl, content)
        f == IF Truthy(content) THEN verify_answer_format(fl, content.text)
             ELSE Verdict(FALSE, <<>>)
        v == IF Truthy(content) THEN verify_answer_value(fl, content.text)
             ELSE Verdict(FALSE, <<>>)
    IN  [list |-> <<e.ok, f.ok, v.ok>>,
         out |-> e.out \o f.out \o v.out,
         calls |-> <<"_verify_answer_file_existence">>
                   \o (IF Truthy(content)
                       THEN <<"_verify_answer_format", "_verify_answer_value">>
                       ELSE <<>>)]

\* the list handed to all() in step 3
reference_checks(fl, content) ==
    LET e == verify_reference_file(fl, content)
        f == IF Truthy(content) THEN verify_required_section(fl, content.text)
             ELSE Verdict(FALSE, <<>>)
        v == IF Truthy(content) THEN verify_required_entries(fl, content.text)
             ELSE Verdict(FALSE, <<>>)
    IN  [list |-> <<e.ok, f.ok, v.ok>>,
         out |-> e.out \o f.out \o v.out,
         calls |-> <<"_verify_reference_file">>
                   \o (IF Truthy(content)
                       THEN <<"_verify_required_section", "_verify_required_entries">>
                       ELSE <<>>)]

\* the summary block printed on success
Summary(org) ==
    <<Out("rule"), Out("all_passed"), Out("summary"),
      Line("summary_repo", "stdout", "", 0, org, <<>>),
      [Out("summary_branch") EXCEPT !.ref = target_branch],
      Line("summary_answer", "stdout", answer_path, 0, expected_value, <<>>),
      Line("summary_reference", "stdout", reference_path, 0, required_section, <<>>),
      Out("rule")>>

\* ------------------------------------------------------------------ inputs
token_value == <<116, 111, 107>>  \* "tok"
org_value == <<111, 114, 103>>    \* "org"

EnvValues(v) == {None, Some(<<>>), Some(IF v = github_token_var THEN token_value
                                         ELSE org_value)}
Environments == {e \in [EnvVars -> UNION {EnvValues(v) : v \in EnvVars}] :
                    \A v \in EnvVars : e[v] \in EnvValues(v)}

\* .mcp_env defines neither variable, or both
EnvFiles == {e \in Environments : e[github_token_var].some = e[github_org_var].some}

\* the newline GitHub puts after every 60 symbols of `content`, and at its end
RECURSIVE Chunked(_)
Chunked(s) == IF Len(s) <= 60 THEN s \o <<NL>>
              ELSE SubSeq(s, 1, 60) \o <<NL>> \o Chunked(SubSeq(s, 61, Len(s)))

FileResponse(text) == Response(200, JsonFile(Chunked(b64encode(text))))

\* the responses that carry no readable file, for a file whose text is `text`
FaultyResponses(text) ==
    {Raised, BadJson,
     Response(404, JsonNull), Response(403, JsonNull), Response(500, JsonNull),
     Response(404, JsonFile(Chunked(b64encode(text)))),
     Response(200, JsonNull), Response(200, JsonEmptyObject), Response(200, JsonArray),
     Response(200, JsonObjectNullContent),
     Response(200, JsonFile(SubSeq(b64encode(text), 1, Len(b64encode(text)) - 1))),
     Response(200, JsonFile(b64encode(text \o <<255>>)))}

\* whitespace before and after a text
Pads == {<<<<>>, <<10>>>>, <<<<32>>, <<10>>>>, <<<<10>>, <<32>>>>, <<<<9, 32>>, <<>>>>}
AnswerCores == {expected_value,
                <<50, 48, 50, 51, 45, 49, 49, 45, 49, 54>>,       \* "2023-11-16"
                <<50, 48, 50, 51, 45, 49, 45, 49, 53>>,           \* "2023-1-15"
                <<50, 48, 50, 51, 45, 49, 49, 45, 49, 53, 120>>,  \* "2023-11-15x"
                <<50, 48, 50, 51, 45, 49, 49, 45, 49, 53, 10, 120>>,
                <<97, 98>>,                                       \* "ab"
                <<>>}
PaddedCores == {expected_value, <<50, 48, 50, 51, 45, 49, 49, 45, 49, 54>>, <<>>}
AnswerTexts == AnswerCores \cup {p[1] \o c \o p[2] : p \in Pads, c \in PaddedCores}

AnswerResponses ==
    {FileResponse(t) : t \in AnswerTexts}
    \cup {Response(200, JsonFile(b64encode(expected_value))),
          Response(200, JsonObjectNoContent)}
    \cup FaultyResponses(expected_value)

\* "## voxel engine implementation"
lowercase_section == <<35, 35, 32, 118, 111, 120, 101, 108, 32, 101, 110, 103, 105, 110,
                       101, 32, 105, 109, 112, 108, 101, 109, 101, 110, 116, 97, 116,
                       105, 111, 110>>
RefBlocks == {required_section \o <<10>>, entry_1 \o <<10>>, entry_2 \o <<10>>}

RECURSIVE Flatten(_)
Flatten(ss) == IF ss = <<>> THEN <<>> ELSE Head(ss) \o Flatten(Tail(ss))

ReferenceTexts ==
    {Flatten(bs) : bs \in UNION {[1..n -> RefBlocks] : n \in 0..MaxRefBlocks}}
    \cup {lowercase_section \o <<10>> \o entry_1 \o <<10>> \o entry_2,
          required_section \o <<10>> \o SubSeq(entry_1, 1, Len(entry_1) - 1)
              \o <<10>> \o entry_2,
          <<32, 10>>}

ReferenceResponses ==
    {FileResponse(t) : t \in ReferenceTexts}
    \cup {Response(200, JsonObjectNoContent)}
    \cup FaultyResponses(required_section \o <<10>> \o entry_1 \o <<10>> \o entry_2)

Unset == [set |-> FALSE, resp |-> Raised]
Given(resp) == [set |-> TRUE, resp |-> resp]

NoRun == [valid |-> FALSE, result |-> FALSE, log |-> <<>>, gets |-> <<>>]

\* ---------------------------------------------------------------- actions
Fresh ==
    /\ pc = "LoadEnv"
    /\ github_token = None
    /\ github_org = None
    /\ answer_content = None
    /\ reference_content = None
    /\ checks = [answer |-> <<>>, reference |-> <<>>]
    /\ calls = <<>>
    /\ gets = <<>>
    /\ log = <<>>
    /\ result = FALSE

InitCommon ==
    /\ environ \in Environments
    /\ env_file \in EnvFiles
    /\ mock = [answer |-> Unset, reference |-> Unset]
    /\ run = 1
    /\ prev = NoRun
    /\ Fresh

\* the configuration as written in the source
Init == flags = DefaultFlags /\ InitCommon

\* any setting of the flags, the credentials given in the process environment
InitFlags ==
    /\ flags \in {f \in [FlagNames -> BOOLEAN] : f["check_entries"]}
    /\ InitCommon
    /\ environ = [v \in EnvVars |-> IF v = github_token_var THEN Some(token_value)
                                    ELSE Some(org_value)]
    /\ env_file = [v \in EnvVars |-> None]

\* step 1: lines 246-257
LoadEnv ==
    /\ pc = "LoadEnv"
    /\ LET env == load_dotenv(environ, env_file)
           loaded == load_environment(env)
           banner == <<Out("start"), Out("rule"), Out("step1")>> \o loaded.out
       IN  /\ environ' = environ_after_load(environ, env_file)
           /\ github_token' = loaded.github_token
           /\ github_org' = loaded.github_org
           /\ IF Incomplete(loaded.github_token, loaded.github_org)
              THEN /\ log' = log \o banner \o <<Err("env_incomplete")>>
                   /\ pc' = "Done"
                   /\ result' = FALSE
              ELSE /\ log' = log \o banner
                              \o <<Line("env_loaded", "stdout", "", 0,
                                        loaded.github_org.text, <<>>)>>
                   /\ pc' = "ValidateAnswer"
                   /\ result' = result
    /\ UNCHANGED <<flags, env_file, mock, run, answer_content, reference_content,
                   checks, calls, gets, prev>>

\* step 2, lines 260-265: the answer file is fetched
FetchAnswer ==
    /\ pc = "ValidateAnswer"
    /\ \E resp \in (IF mock.answer.set THEN {mock.answer.resp} ELSE AnswerResponses) :
          \E got \in {get_file_content(answer_path, github_token.text, github_org.text,
                                      "", resp)} :
              /\ mock' = [mock EXCEPT !.answer = Given(resp)]
              /\ gets' = gets \o got.sent
              /\ log' = log \o <<Out("step2")>> \o got.out
              /\ answer_content' = got.ret
              /\ pc' = IF got.raised THEN "Raised" ELSE "AnswerFetched"
    /\ UNCHANGED <<flags, environ, env_file, run, github_token, github_org,
                   reference_content, checks, calls, result, prev>>

\* step 2, lines 267-274: the answer checks
CheckAnswer ==
    /\ pc = "AnswerFetched"
    /\ \E c \in {answer_checks(flags, answer_content)} :
           /\ checks' = [checks EXCEPT !.answer = c.list]
           /\ calls' = calls \o c.calls
           /\ IF ~all(c.list)
              THEN /\ log' = log \o c.out \o <<Err("answer_failed")>>
                   /\ pc' = "Done"
                   /\ result' = FALSE
              ELSE /\ log' = log \o c.out
                   /\ pc' = "ValidateReference"
                   /\ result' = result
    /\ UNCHANGED <<flags, environ, env_file, mock, run, github_token, github_org,
                   answer_content, reference_content, gets, prev>>

\* step 3, lines 277-282: the reference file is fetched
FetchReference ==
    /\ pc = "ValidateReference"
    /\ \E resp \in (IF mock.reference.set THEN {mock.reference.resp}
                    ELSE ReferenceResponses) :
          \E got \in {get_file_content(reference_path, github_token.text,
                                      github_org.text, "", resp)} :
              /\ mock' = [mock EXCEPT !.reference = Given(resp)]
              /\ gets' = gets \o got.sent
              /\ log' = log \o <<Out("step3")>> \o got.out
              /\ reference_content' = got.ret
              /\ pc' = IF got.raised THEN "Raised" ELSE "ReferenceFetched"
    /\ UNCHANGED <<flags, environ, env_file, run, github_token, github_org,
                   answer_content, checks, calls, result, prev>>

\* step 3, lines 284-302: the reference checks, then the summary
CheckReference ==
    /\ pc = "ReferenceFetched"
    /\ \E c \in {reference_checks(flags, reference_content)} :
           /\ checks' = [checks EXCEPT !.reference = c.list]
           /\ calls' = calls \o c.calls
           /\ IF ~all(c.list)
              THEN /\ log' = log \o c.out \o <<Err("reference_failed")>>
                   /\ result' = FALSE
              ELSE /\ log' = log \o c.out \o Summary(github_org.text)
                   /\ result' = TRUE
           /\ pc' = "Done"
    /\ UNCHANGED <<flags, environ, env_file, mock, run, github_token, github_org,
                   answer_content, reference_content, gets, prev>>

\* run_verification is called again in the same process, against the same remote
Rerun ==
    /\ pc = "Done"
    /\ run < MaxRuns
    /\ run' = run + 1
    /\ prev' = [valid |-> TRUE, result |-> result, log |-> log, gets |-> gets]
    /\ pc' = "LoadEnv"
    /\ github_token' = None
    /\ github_org' = None
    /\ answer_content' = None
    /\ reference_content' = None
    /\ checks' = [answer |-> <<>>, reference |-> <<>>]
    /\ calls' = <<>>
    /\ gets' = <<>>
    /\ log' = <<>>
    /\ result' = FALSE
    /\ UNCHANGED <<flags, environ, env_file, mock>>

Next == LoadEnv \/ FetchAnswer \/ CheckAnswer \/ FetchReference \/ CheckReference
        \/ Rerun

Spec == Init /\ [][Next]_vars
SpecFlags == InitFlags /\ [][Next]_vars

\* ================================================================ claims
\* vocabulary of the claims, stated apart from the operators that model the code
Last(s) == s[Len(s)]
HasLine(msg) == \E i \in 1..Len(log) : log[i].msg = msg
LinesOf(msg) == {i \in 1..Len(log) : log[i].msg = msg}
Requested(path) == \E i \in 1..Len(gets) : gets[i].path = path

\* the credential a variable ends up with: the process environment, else the file
Credential(v) == IF environ[v].some THEN environ[v] ELSE env_file[v]
Missing(v) == ~Credential(v).some \/ Credential(v).text = <<>>

\* the text between the first and the last non-whitespace character
Trimmed(s) ==
    LET solid == {i \in 1..Len(s) : s[i] \notin Whitespace}
    IN  IF solid = {} THEN <<>>
        ELSE SubSeq(s, CHOOSE i \in solid : \A j \in solid : i <= j,
                       CHOOSE i \in solid : \A j \in solid : i >= j)

\* dddd-dd-dd
IsDateForm(s) ==
    /\ Len(s) = 10
    /\ \A i \in {1, 2, 3, 4, 6, 7, 9, 10} : s[i] \in 48..57
    /\ s[5] = 45 /\ s[8] = 45

AnswerStepOver == checks.answer # <<>>
ReferenceStepOver == checks.reference # <<>>

\* C1: with a credential missing (absent or empty token, absent or empty
\* organization, or both) the run goes from LoadEnv straight to Done with result
\* false: no GET is issued, no check is called, and its last line is the
\* incomplete-environment diagnostic.
C1_MissingCredentialsNoRequest ==
    (Missing(github_token_var) \/ Missing(github_org_var))
        => /\ pc \in {"LoadEnv", "Done"}
           /\ gets = <<>>
           /\ calls = <<>>
           /\ ~mock.answer.set /\ ~mock.reference.set
           /\ pc = "Done" => /\ result = FALSE
                             /\ Last(log).msg = "env_incomplete"

C1_Witness ==
    /\ pc = "Done"
    /\ Credential(github_token_var) = Some(<<>>)
    /\ ~Missing(github_org_var)
    /\ result = FALSE
    /\ gets = <<>>

\* C2: with the default flags a finished run returns true exactly when both
\* credentials are present, the fetched answer is non-empty and its trimmed
\* text is a date of the form dddd-dd-dd equal to 2023-11-15, and the fetched
\* reference is non-empty and contains the section heading and every entry.
C2_TrueIffEverythingHolds ==
    pc = "Done" =>
        (result <=>
            /\ ~Missing(github_token_var) /\ ~Missing(github_org_var)
            /\ answer_content.some /\ answer_content.text # <<>>
            /\ IsDateForm(Trimmed(answer_content.text))
            /\ Trimmed(answer_content.text) = <<50, 48, 50, 51, 45, 49, 49, 45, 49, 53>>
            /\ reference_content.some /\ reference_content.text # <<>>
            /\ Contains(required_section, reference_content.text)
            /\ \A k \in 1..Len(required_entries) :
                   Contains(required_entries[k], reference_content.text))

C2_Witness ==
    /\ pc = "Done"
    /\ result = TRUE
    /\ Len(answer_content.text) > 10
    /\ Len(gets) = 2

\* the base64 encodings of the ASCII texts a file may hold
Encodings == {b64encode(t) : t \in AnswerTexts \cup ReferenceTexts}

\* a body is readable when it is an object whose `content`, if any, is a string
\* that is, its newlines set aside, the base64 encoding of an ASCII text
Readable(body) ==
    /\ body.kind = "object"
    /\ body.has_content => /\ body.is_str
                           /\ SelectSeq(body.content, LAMBDA x : x # NL) \in Encodings

\* the failure classes of a fetch: a transport exception, a status other than
\* 200, an unparsable, absent or empty body, a `content` that cannot be read
FetchFails(resp) ==
    \/ resp.raises
    \/ resp.status_code # 200
    \/ resp.json_raises
    \/ resp.body.kind \in {"null", "empty_object"}
    \/ ~Readable(resp.body)

\* what the fetch of a response must return: None for every failure class, else
\* the text whose encoding the body carries ("" when it carries no `content`)
FetchedRight(resp, content) ==
    IF FetchFails(resp) THEN content = None
    ELSE /\ content.some
         /\ IF resp.body.has_content
            THEN SelectSeq(resp.body.content, LAMBDA x : x # NL) = b64encode(content.text)
            ELSE content.text = <<>>

\* C3: _get_file_content never raises; it returns None for a 404, any other
\* non-200 status, a transport exception, an absent or empty JSON body and any
\* failure to read or decode `content`, with a diagnostic naming the file, and
\* returns text only for a 200 response whose body decodes cleanly.
C3_FetchNeverRaisesAbsentOnFailure ==
    /\ pc # "Raised"
    /\ pc = "AnswerFetched" =>
           /\ FetchedRight(mock.answer.resp, answer_content)
           /\ answer_content = None =>
                  /\ Last(log).msg \in {"file_not_found", "decode_failed"}
                  /\ Last(log).path = "ANSWER.md"
    /\ pc = "ReferenceFetched" =>
           /\ FetchedRight(mock.reference.resp, reference_content)
           /\ reference_content = None =>
                  /\ Last(log).msg \in {"file_not_found", "decode_failed"}
                  /\ Last(log).path = "README.md"

C3_Witness ==
    /\ pc = "AnswerFetched"
    /\ mock.answer.resp.status_code = 200
    /\ mock.answer.resp.body.is_str
    /\ answer_content = None
    /\ Last(log).msg = "decode_failed"

\* the answer step fails, under the default flags: the content is absent or empty,
\* is no date once trimmed, or is not 2023-11-15 once trimmed
AnswerBad ==
    \/ ~answer_content.some \/ answer_content.text = <<>>
    \/ ~IsDateForm(Trimmed(answer_content.text))
    \/ Trimmed(answer_content.text) # <<50, 48, 50, 51, 45, 49, 49, 45, 49, 53>>

\* C4: when the answer step fails the run prints the answer-file failure line
\* last, returns false and never requests the reference file; the reference GET
\* is issued only once every answer check has passed.
C4_AnswerFailureStopsRun ==
    /\ (AnswerStepOver /\ AnswerBad) =>
           /\ pc = "Done"
           /\ result = FALSE
           /\ Last(log).msg = "answer_failed"
           /\ ~Requested("README.md")
           /\ Len(gets) = 1
           /\ calls \in {<<"_verify_answer_file_existence">>,
                         <<"_verify_answer_file_existence", "_verify_answer_format",
                           "_verify_answer_value">>}
    /\ Requested("README.md") =>
           /\ AnswerStepOver /\ ~AnswerBad
           /\ checks.answer = <<TRUE, TRUE, TRUE>>
           /\ HasLine("answer_exists") /\ HasLine("format_ok") /\ HasLine("value_ok")
           /\ ~HasLine("answer_failed")

C4_Witness ==
    /\ pc = "Done"
    /\ mock.answer.resp.status_code = 404
    /\ answer_content = None
    /\ Last(log).msg = "answer_failed"
    /\ result = FALSE
    /\ ~mock.reference.set

\* C5: when the trimmed answer is a date dddd-dd-dd the format check passes, and
\* the value check passes exactly when the trimmed answer is 2023-11-15; a
\* mismatch is reported with the expected value 2023-11-15 and the trimmed actual
\* value (2023-11-16 for content 2023-11-16).
C5_FormatPassesValueIffExpected ==
    (AnswerStepOver /\ Truthy(answer_content)
     /\ IsDateForm(Trimmed(answer_content.text))) =>
        LET actual == Trimmed(answer_content.text)
            expected == <<50, 48, 50, 51, 45, 49, 49, 45, 49, 53>>
        IN  /\ checks.answer[2] = TRUE
            /\ Cardinality(LinesOf("format_ok")) = 1
            /\ ~HasLine("format_mismatch")
            /\ checks.answer[3] = (actual = expected)
            /\ actual = expected =>
                   /\ Cardinality(LinesOf("value_ok")) = 1
                   /\ ~HasLine("value_mismatch")
            /\ actual # expected =>
                   /\ ~HasLine("value_ok")
                   /\ Cardinality(LinesOf("value_mismatch")) = 1
                   /\ \A i \in LinesOf("value_mismatch") :
                          /\ log[i].a = expected
                          /\ log[i].b = actual
                          /\ log[i].stream = "stderr"

C5_Witness ==
    /\ pc = "Done"
    /\ Len(answer_content.text) > 10
    /\ Trimmed(answer_content.text) = <<50, 48, 50, 51, 45, 49, 49, 45, 49, 54>>
    /\ HasLine("format_ok")
    /\ \E i \in LinesOf("value_mismatch") :
           log[i].b = <<50, 48, 50, 51, 45, 49, 49, 45, 49, 54>>

\* the required entries a text lacks
Lacking(text) == {k \in 1..Len(required_entries) : ~Contains(required_entries[k], text)}

\* C6: for fetched reference content lacking required entries the entries check
\* prints one warning per missing entry, in the order of the entries, then the
\* failure line, and is false, so the run returns false; the section check still
\* passes and prints its pass line whenever the heading is in the content.
C6_OneWarningPerMissingEntry ==
    ReferenceStepOver =>
        LET text == reference_content.text
            warnings == LinesOf("entry_missing")
        IN  /\ Lacking(text) # {} => result = FALSE /\ pc = "Done"
            /\ (Truthy(reference_content) /\ Lacking(text) # {}) =>
                   /\ checks.reference[3] = FALSE
                   /\ Cardinality(warnings) = Cardinality(Lacking(text))
                   /\ \A k \in Lacking(text) :
                          Cardinality({i \in warnings : log[i].a = required_entries[k]}) = 1
                   /\ \A i \in warnings :
                          /\ log[i].stream = "stderr"
                          /\ log[i + 1].msg \in {"entry_missing", "entries_missing"}
                   /\ \A i, j \in warnings :
                          i < j => \E k, l \in Lacking(text) :
                                       /\ k < l
                                       /\ log[i].a = required_entries[k]
                                       /\ log[j].a = required_entries[l]
                   /\ Cardinality(LinesOf("entries_missing")) = 1
                   /\ ~HasLine("entries_ok")
                   /\ Last(log).msg = "reference_failed"
            /\ (Truthy(reference_content) /\ Contains(required_section, text)) =>
                   /\ checks.reference[2] = TRUE
                   /\ Cardinality(LinesOf("section_found")) = 1
                   /\ ~HasLine("section_missing")

C6_Witness ==
    /\ pc = "Done"
    /\ ReferenceStepOver
    /\ Contains(required_section, reference_content.text)
    /\ Cardinality(Lacking(reference_content.text)) = 2
    /\ Cardinality(LinesOf("entry_missing")) = 2
    /\ HasLine("section_found")
    /\ result = FALSE

\* C7: a second run in the same process, with the same environment file and the
\* same responses to the two requests, ends with the same result, the same lines
\* in the same order and the same requests as the run before it.
C7_SecondRunSameOutcome ==
    (prev.valid /\ pc \in {"Done", "Raised"}) =>
        /\ pc = "Done"
        /\ result = prev.result
        /\ log = prev.log
        /\ gets = prev.gets

C7_Witness ==
    /\ run = 2
    /\ pc = "Done"
    /\ result = TRUE
    /\ prev.valid
    /\ ~env_file[github_token_var].some
    /\ Len(log) = Len(prev.log)

\* what each check of a step decides when it is enabled; a disabled check passes
ExistencePasses(content) == content.some /\ content.text # <<>>
FormatPasses(content) == content.some /\ IsDateForm(Trimmed(content.text))
ValuePasses(content) ==
    content.some /\ Trimmed(content.text) = <<50, 48, 50, 51, 45, 49, 49, 45, 49, 53>>
SectionPasses(content) == content.some /\ Contains(required_section, content.text)
EntriesPass(content) == content.some /\ Lacking(content.text) = {}

\* C8: under every setting of the six flags and every fetch result a file step
\* passes exactly when each of its enabled checks passes, a disabled check
\* passing trivially and printing nothing; with the three flags of a step false
\* the step passes whatever was fetched.
C8_StepIsAndOfEnabledChecks ==
    /\ AnswerStepOver =>
           /\ all(checks.answer) <=>
                  /\ flags["check_answer_file_existence"] => ExistencePasses(answer_content)
                  /\ flags["check_answer_format"] => FormatPasses(answer_content)
                  /\ flags["verify_answer_value"] => ValuePasses(answer_content)
           /\ ~flags["check_answer_file_existence"] =>
                  ~HasLine("answer_exists") /\ ~HasLine("answer_missing")
           /\ ~flags["check_answer_format"] =>
                  ~HasLine("format_ok") /\ ~HasLine("format_mismatch")
           /\ ~flags["verify_answer_value"] =>
                  ~HasLine("value_ok") /\ ~HasLine("value_mismatch")
    /\ ReferenceStepOver =>
           /\ all(checks.reference) <=>
                  /\ flags["check_reference_file"] => ExistencePasses(reference_content)
                  /\ flags["check_section_existence"] => SectionPasses(reference_content)
                  /\ flags["check_required_entries"] => EntriesPass(reference_content)
           /\ ~flags["check_reference_file"] =>
                  ~HasLine("reference_exists") /\ ~HasLine("reference_missing")
           /\ ~flags["check_section_existence"] =>
                  ~HasLine("section_found") /\ ~HasLine("section_missing")
           /\ ~flags["check_required_entries"] =>
                  ~HasLine("entries_ok") /\ ~HasLine("entries_missing")
                  /\ ~HasLine("entry_missing")

\* the check functions of a step, in the order of the step
AnswerOrder == <<"_verify_answer_file_existence", "_verify_answer_format",
                 "_verify_answer_value">>
ReferenceOrder == <<"_verify_reference_file", "_verify_required_section",
                    "_verify_required_entries">>

\* the lines each check function prints
LinesPrintedBy(f) ==
    CASE f = "_verify_answer_file_existence" -> {"answer_exists", "answer_missing"}
      [] f = "_verify_answer_format" -> {"format_ok", "format_mismatch"}
      [] f = "_verify_answer_value" -> {"value_ok", "value_mismatch"}
      [] f = "_verify_reference_file" -> {"reference_exists", "reference_missing"}
      [] f = "_verify_required_section" -> {"section_found", "section_missing"}
      [] f = "_verify_required_entries" -> {"entries_ok", "entries_missing", "entry_missing"}

FailureLines == {"answer_missing", "format_mismatch", "value_mismatch",
                 "reference_missing", "section_missing", "entries_missing"}

\* the place in its step of the check printing a line, 0 for any other line
Place(msg) ==
    CASE msg \in {"answer_exists", "answer_missing"} -> 1
      [] msg \in {"format_ok", "format_mismatch"} -> 2
      [] msg \in {"value_ok", "value_mismatch"} -> 3
      [] msg \in {"reference_exists", "reference_missing"} -> 4
      [] msg \in {"section_found", "section_missing"} -> 5
      [] msg \in {"entries_ok", "entries_missing", "entry_missing"} -> 6
      [] OTHER -> 0

Position(f) ==
    CHOOSE k \in 1..6 : (AnswerOrder \o ReferenceOrder)[k] = f

\* the calls of a step's checks, in order
CallsAmong(order) == SelectSeq(calls, LAMBDA f : \E k \in 1..3 : order[k] = f)

\* the checks are called, and print, in the order of the step
InStepOrder ==
    /\ \A i \in 1..(Len(calls) - 1) : Position(calls[i]) < Position(calls[i + 1])
    /\ \A i, j \in 1..Len(log) :
           (i < j /\ Place(log[i].msg) > 0 /\ Place(log[j].msg) > 0)
               => Place(log[i].msg) <= Place(log[j].msg)

\* C9 as stated: the checks of a step run in the order existence, format (or
\* section), value (or entries), and once a check of the step has failed no later
\* check of the step runs or prints.
C9_FailedCheckStopsStep ==
    /\ InStepOrder
    /\ \A i \in 1..Len(log) :
           log[i].msg \in FailureLines =>
               \A j \in (i + 1)..Len(log) :
                   \A f \in {calls[k] : k \in 1..Len(calls)} : log[j].msg \notin LinesPrintedBy(f)

\* C9 as amended: the checks of a step run in that order; absent or empty
\* content is what stops the step, the two later checks then being neither run
\* nor heard; on non-empty content all three checks run and print, whatever the
\* earlier ones decided.
C9_OnlyMissingContentStopsStep ==
    /\ InStepOrder
    /\ AnswerStepOver =>
           /\ CallsAmong(AnswerOrder) =
                  (IF Truthy(answer_content) THEN AnswerOrder ELSE <<AnswerOrder[1]>>)
           /\ \A k \in 1..3 :
                  (\E l \in LinesPrintedBy(AnswerOrder[k]) : HasLine(l))
                      <=> (k = 1 \/ Truthy(answer_content))
    /\ ReferenceStepOver =>
           /\ CallsAmong(ReferenceOrder) =
                  (IF Truthy(reference_content) THEN ReferenceOrder
                   ELSE <<ReferenceOrder[1]>>)
           /\ \A k \in 1..3 :
                  (\E l \in LinesPrintedBy(ReferenceOrder[k]) : HasLine(l))
                      <=> (k = 1 \/ Truthy(reference_content))

C9_Witness ==
    /\ pc = "Done"
    /\ HasLine("format_mismatch")
    /\ HasLine("value_mismatch")
    /\ \A i \in LinesOf("format_mismatch") : \A j \in LinesOf("value_mismatch") : i < j
    /\ calls = AnswerOrder

\* C10: a run issues at most one GET for the answer file and at most one for the
\* reference file, the answer GET first, whatever the requests end with, and
\* every GET asks for the branch main.
C10_AtMostOneGetPerFile ==
    /\ Len(gets) <= 2
    /\ Len(gets) >= 1 => gets[1].path = "ANSWER.md"
    /\ Len(gets) = 2 => gets[2].path = "README.md"
    /\ \A i \in 1..Len(gets) : gets[i].ref = "main"
    /\ Len(gets) = (IF mock.answer.set /\ pc \notin {"LoadEnv", "ValidateAnswer"}
                       /\ ~Missing(github_token_var) /\ ~Missing(github_org_var)
                    THEN 1 ELSE 0)
                   + (IF pc = "ReferenceFetched" \/ ReferenceStepOver THEN 1 ELSE 0)

C10_Witness ==
    /\ pc = "Done"
    /\ Len(gets) = 2
    /\ mock.answer.resp.body.content # <<>>
    /\ mock.reference.resp.raises

====
